---- MODULE Spec2Model ----
(***************************************************************************)
(* Cookie Clicker ROI Advisor: the ranking policies (StrategyEngine.js),   *)
(* the validators (Validators.js), the state normaliser and the economic   *)
(* model (GameStateAdapter.js, EconomicModel.js) and the public API of     *)
(* CookieAdvisor (advisor.js and the two single-file bundles).             *)
(*                                                                         *)
(* JavaScript values.  A value that the code treats as a number is a       *)
(* record [k, n, d]:                                                       *)
(*   k = "fin"   the finite number n/d (d > 0, lowest terms)               *)
(*   k = "inf"   +Infinity (n = 1) or -Infinity (n = -1)                   *)
(*   k = "nan"   NaN                                                       *)
(*   k = "undef" undefined: its typeof is not 'number', it is falsy and it *)
(*               converts to NaN in arithmetic and comparisons             *)
(* Finite numbers are exact rationals: rounding of IEEE doubles and the    *)
(* sign of zero are not modelled.                                          *)
(***************************************************************************)
EXTENDS Integers, Sequences, FiniteSets, TLC

VARIABLES
    candidates,   \* the array a caller hands to evaluate / recommend
    input,        \* its contents when the last call began
    ranking,      \* what the last evaluate / recommend call did
    gameState,    \* the normalised state an EconomicModel is built on
    item,         \* the building or upgrade of it that is evaluated
    roi,          \* what calculateBuildingROI / calculateUpgradeROI did
    loaded,       \* the build of the advisor that is loaded
    Game,         \* window.Game, the snapshot
    Game0,        \* the snapshot as the host left it
    currentStrategy,     \* the class of CookieAdvisor's currentStrategy
    selected,            \* the class given to the last accepted change of policy
    lastRecommendation,  \* CookieAdvisor's lastRecommendation
    history,             \* how the last analyze() calls went
    snapshotCalls,       \* the calls made on the snapshot so far
    last                 \* the last operation of CookieAdvisor and how it ended

rankVars == <<candidates, input, ranking>>
roiVars == <<gameState, item, roi>>
advisorVars ==
    <<loaded, Game, Game0, currentStrategy, selected, lastRecommendation, history,
      snapshotCalls, last>>
vars == <<rankVars, roiVars, advisorVars>>

-----------------------------------------------------------------------------
(* Numbers *)

Abs(x) == IF x < 0 THEN -x ELSE x

RECURSIVE GCD(_, _)
GCD(a, b) == IF b = 0 THEN a ELSE GCD(b, a % b)

Fin(n, d) ==
    LET g == GCD(Abs(n), d)
    IN  [k |-> "fin", n |-> n \div g, d |-> d \div g]
Num(n) == [k |-> "fin", n |-> n, d |-> 1]
PosInf == [k |-> "inf", n |-> 1, d |-> 1]
NegInf == [k |-> "inf", n |-> -1, d |-> 1]
NaN == [k |-> "nan", n |-> 0, d |-> 1]
Undefined == [k |-> "undef", n |-> 0, d |-> 1]

\* typeof x === 'number'
TypeofNumber(x) == x.k # "undef"
\* ToNumber(x) of the language: undefined becomes NaN
ToNumber(x) == IF x.k = "undef" THEN NaN ELSE x
\* isFinite(x): converts, then false for NaN and the infinities
IsFinite(x) == ToNumber(x).k = "fin"
\* the sign of a number: -1, 0, 1; NaN has none and gives 0
Sign(x) == IF x.k = "nan" THEN 0
           ELSE IF x.n > 0 THEN 1 ELSE IF x.n < 0 THEN -1 ELSE 0

\* a < b
Lt(a, b) ==
    LET x == ToNumber(a)
        y == ToNumber(b)
    IN  IF x.k = "nan" \/ y.k = "nan" THEN FALSE
        ELSE IF x.k = "inf" THEN x.n = -1 /\ ~(y.k = "inf" /\ y.n = -1)
        ELSE IF y.k = "inf" THEN y.n = 1
        ELSE x.n * y.d < y.n * x.d
\* a <= b
Le(a, b) ==
    LET x == ToNumber(a)
        y == ToNumber(b)
    IN  IF x.k = "nan" \/ y.k = "nan" THEN FALSE ELSE ~Lt(y, x)
\* a !== b on two values of the model (NaN differs from itself)
StrictNe(a, b) == a.k = "nan" \/ b.k = "nan" \/ a # b

\* a - b
Sub(a, b) ==
    LET x == ToNumber(a)
        y == ToNumber(b)
    IN  IF x.k = "nan" \/ y.k = "nan" THEN NaN
        ELSE IF x.k = "inf" /\ y.k = "inf" THEN (IF x.n = y.n THEN NaN ELSE x)
        ELSE IF x.k = "inf" THEN x
        ELSE IF y.k = "inf" THEN (IF y.n = 1 THEN NegInf ELSE PosInf)
        ELSE Fin(x.n * y.d - y.n * x.d, x.d * y.d)
\* !!x of a value of the model: 0, NaN and undefined are falsy
Truthy(x) == (x.k = "fin" /\ x.n # 0) \/ x.k = "inf"
\* x || 0
OrZero(x) == IF Truthy(x) THEN x ELSE Num(0)

\* a * b
Mul(a, b) ==
    LET x == ToNumber(a)
        y == ToNumber(b)
    IN  IF x.k = "nan" \/ y.k = "nan" THEN NaN
        ELSE IF x.k = "inf" \/ y.k = "inf"
             THEN (IF Sign(x) * Sign(y) = 0 THEN NaN
                   ELSE IF Sign(x) * Sign(y) > 0 THEN PosInf ELSE NegInf)
        ELSE Fin(x.n * y.n, x.d * y.d)
\* a / b
Div(a, b) ==
    LET x == ToNumber(a)
        y == ToNumber(b)
    IN  IF x.k = "nan" \/ y.k = "nan" THEN NaN
        ELSE IF x.k = "inf" /\ y.k = "inf" THEN NaN
        ELSE IF x.k = "inf" THEN (IF Sign(x) * Sign(y) < 0 THEN NegInf ELSE PosInf)
        ELSE IF y.k = "inf" THEN Num(0)
        ELSE IF y.n = 0
             THEN (IF x.n = 0 THEN NaN ELSE IF x.n > 0 THEN PosInf ELSE NegInf)
        ELSE Fin(Sign(y) * x.n * y.d, Abs(y.n) * x.d)

-----------------------------------------------------------------------------
(* Constants.js *)

MAX_REASONABLE_ROI == 3600
MIN_VALID_DELTA_CPS == Fin(1, 1000)
TOP_ALTERNATIVES_COUNT == 5
\* UPGRADE_ESTIMATES
\* (a variant without the boost of an unknown upgrade)
ZeroBoost == Num(0)
CONSERVATIVE_BOOST == Fin(1, 50)
CLICK_UPGRADE_WEIGHT == Fin(1, 100)
SYNERGY_MULTIPLIER == Fin(1, 2)

-----------------------------------------------------------------------------
(* Candidates.  A candidate is an object with the properties id, type,     *)
(* name, cost, deltaCPS and roiTime; missing is the set of those it lacks  *)
(* (reading one gives undefined).  obj = FALSE is a null array entry.      *)

requiredProps == {"id", "type", "name", "cost", "deltaCPS", "roiTime"}

Cand(type, cost, deltaCPS, roiTime, missing) ==
    [obj |-> TRUE, id |-> 0, type |-> type, cost |-> cost,
     deltaCPS |-> deltaCPS, roiTime |-> roiTime, missing |-> missing]
NullEntry ==
    [obj |-> FALSE, id |-> 0, type |-> "null", cost |-> Undefined,
     deltaCPS |-> Undefined, roiTime |-> Undefined, missing |-> {}]

\* c.roiTime, c.deltaCPS, c.cost
NumProp(c, p) == IF p \in c.missing THEN Undefined ELSE c[p]

-----------------------------------------------------------------------------
(* Validators.js *)

\* A variant that takes every number for a payback time.
IsValidROIAnyNumber(roiTime) == TypeofNumber(roiTime)
isValidROI(roiTime) ==
    IF ~TypeofNumber(roiTime) THEN FALSE
    ELSE IF ~IsFinite(roiTime) THEN FALSE
    ELSE IF Le(roiTime, Num(0)) THEN FALSE
    ELSE TRUE

isValidDeltaCPS(deltaCPS) ==
    IF ~TypeofNumber(deltaCPS) THEN FALSE
    ELSE IF ~IsFinite(deltaCPS) THEN FALSE
    ELSE IF Le(deltaCPS, Num(0)) THEN FALSE
    ELSE TRUE

isValidCandidate(candidate) ==
    IF ~candidate.obj THEN FALSE
    ELSE IF requiredProps \cap candidate.missing # {} THEN FALSE
    ELSE IF candidate.type # "building" /\ candidate.type # "upgrade" THEN FALSE
    ELSE IF ~TypeofNumber(candidate.cost) \/ Le(candidate.cost, Num(0)) THEN FALSE
    ELSE TRUE

-----------------------------------------------------------------------------
(* Arrays.  The heap is a sequence of arrays and a reference is an index   *)
(* into it.  filter allocates a new array; sort reorders the array it is   *)
(* called on and returns the same reference.                               *)


\* Variants of the comparator with a slip in them: operands of the primary
\* key swapped, and the tie-break left out.
GreedyCompareSwapped(a, b) ==
    IF StrictNe(NumProp(a, "roiTime"), NumProp(b, "roiTime"))
    THEN Sub(NumProp(b, "roiTime"), NumProp(a, "roiTime"))
    ELSE Sub(NumProp(b, "deltaCPS"), NumProp(a, "deltaCPS"))
GreedyCompareNoTieBreak(a, b) == Sub(NumProp(a, "roiTime"), NumProp(b, "roiTime"))

\* The comparators handed to sort.
GreedyCompare(a, b) ==
    IF StrictNe(NumProp(a, "roiTime"), NumProp(b, "roiTime"))
    THEN Sub(NumProp(a, "roiTime"), NumProp(b, "roiTime"))
    ELSE Sub(NumProp(b, "deltaCPS"), NumProp(a, "deltaCPS"))
RelaxedCompare(a, b) == Sub(NumProp(a, "roiTime"), NumProp(b, "roiTime"))

Compare(policy, a, b) ==
    IF policy = "greedy" THEN GreedyCompare(a, b) ELSE RelaxedCompare(a, b)

\* Array.prototype.sort with a comparator: a stable sort on the sign of the
\* comparator's result, NaN counting as 0.  For a consistent comparator the
\* result is the one the language prescribes.
RECURSIVE SortedInsert(_, _, _)
SortedInsert(s, x, policy) ==
    IF s = <<>> THEN <<x>>
    ELSE IF Sign(Compare(policy, s[Len(s)], x)) > 0
         THEN Append(SortedInsert(SubSeq(s, 1, Len(s) - 1), x, policy), s[Len(s)])
         ELSE Append(s, x)
RECURSIVE InsertionSort(_, _)
InsertionSort(s, policy) ==
    IF s = <<>> THEN <<>>
    ELSE SortedInsert(InsertionSort(SubSeq(s, 1, Len(s) - 1), policy), s[Len(s)], policy)

ArraySort(heap, ref, policy) == [heap EXCEPT ![ref] = InsertionSort(heap[ref], policy)]

-----------------------------------------------------------------------------
(* StrategyEngine.js: the strategies.  The result of a call is a record:   *)
(*   heap   the heap after the call                                        *)
(*   kind   "return" or "throw"                                            *)
(*   isArray, ref   the returned value: an array (its reference) or not    *)
(*   err    the thrown value: "Error", "TypeError", or "none"              *)

Returned(heap, ref) ==
    [heap |-> heap, kind |-> "return", isArray |-> TRUE, ref |-> ref, err |-> "none"]
ReturnedNoArray(heap) ==
    [heap |-> heap, kind |-> "return", isArray |-> FALSE, ref |-> 0, err |-> "none"]
Thrown(heap, err) ==
    [heap |-> heap, kind |-> "throw", isArray |-> FALSE, ref |-> 0, err |-> err]

\* The callbacks handed to filter.
ROIFilter(c) == isValidROI(NumProp(c, "roiTime"))
\* A ceiling filter that drops nothing.
CeilingFilterOff(c) == TRUE
\* A ceiling filter that also drops a candidate at the ceiling.
CeilingFilterExclusive(c) == Lt(NumProp(c, "roiTime"), Num(MAX_REASONABLE_ROI))
CeilingFilter(c) == Le(NumProp(c, "roiTime"), Num(MAX_REASONABLE_ROI))
StructureFilter(c) == isValidCandidate(c)

Test(test, c) ==
    CASE test = "roi" -> ROIFilter(c)
      [] test = "ceiling" -> CeilingFilter(c)
      [] test = "structure" -> StructureFilter(c)

\* Array.prototype.filter: the elements that pass, in order, in a new array
RECURSIVE Filtered(_, _)
Filtered(s, test) ==
    IF s = <<>> THEN <<>>
    ELSE IF Test(test, Head(s)) THEN <<Head(s)>> \o Filtered(Tail(s), test)
         ELSE Filtered(Tail(s), test)
ArrayFilter(heap, ref, test) == Append(heap, Filtered(heap[ref], test))
\* .filter(...) chained on the array the previous call of the chain returned,
\* which is the newest array of the heap
ChainFilter(heap, test) == ArrayFilter(heap, Len(heap), test)
\* .sort(...) chained the same way, and the return of the sorted array
ChainSortReturn(heap, policy) == Returned(ArraySort(heap, Len(heap), policy), Len(heap))

\* Reading c.roiTime of a null entry throws a TypeError in the first filter.
HasNullEntry(array) == \E i \in 1..Len(array) : ~array[i].obj

\* A variant that also sorts the caller's array, before it filters.
GreedyEvaluateSortFirst(heap, ref) ==
    IF HasNullEntry(heap[ref]) THEN Thrown(heap, "TypeError")
    ELSE ChainSortReturn(
             ChainFilter(ChainFilter(
                 ArrayFilter(ArraySort(heap, ref, "greedy"), ref, "roi"),
                 "ceiling"), "structure"),
             "greedy")

GreedyStrategy_evaluate(heap, ref) ==
    IF HasNullEntry(heap[ref]) THEN Thrown(heap, "TypeError")
    ELSE ChainSortReturn(
             ChainFilter(ChainFilter(ArrayFilter(heap, ref, "roi"), "ceiling"),
                         "structure"),
             "greedy")

RelaxedStrategy_evaluate(heap, ref) ==
    IF HasNullEntry(heap[ref]) THEN Thrown(heap, "TypeError")
    ELSE ChainSortReturn(ChainFilter(ArrayFilter(heap, ref, "roi"), "structure"),
                         "relaxed")

\* Strategy.evaluate of the base class
Strategy_evaluate(heap, ref) == Thrown(heap, "Error")
\* A variant of a placeholder that ranks on its own, without the ceiling.
LookaheadEvaluateNoCeiling(heap, ref) ==
    IF HasNullEntry(heap[ref]) THEN Thrown(heap, "TypeError")
    ELSE ChainSortReturn(ChainFilter(ArrayFilter(heap, ref, "roi"), "structure"),
                         "greedy")
\* The three placeholder strategies delegate to a new GreedyStrategy.
LookaheadStrategy_evaluate(heap, ref) == GreedyStrategy_evaluate(heap, ref)
SynergyStrategy_evaluate(heap, ref) == GreedyStrategy_evaluate(heap, ref)
BalancedStrategy_evaluate(heap, ref) == GreedyStrategy_evaluate(heap, ref)

\* The classes of the bundles, and two classes a host can define on top of
\* Strategy: one whose evaluate throws, one whose evaluate returns no array.
BuiltinStrategies ==
    {"GreedyStrategy", "RelaxedStrategy", "LookaheadStrategy", "SynergyStrategy",
     "BalancedStrategy", "Strategy"}
HostStrategies == {"ThrowingStrategy", "MalformedStrategy"}
Strategies == BuiltinStrategies \cup HostStrategies

\* strategy.evaluate(candidates), by the class of the strategy
evaluate(strategy, heap, ref) ==
    CASE strategy = "GreedyStrategy" -> GreedyStrategy_evaluate(heap, ref)
      [] strategy = "RelaxedStrategy" -> RelaxedStrategy_evaluate(heap, ref)
      [] strategy = "LookaheadStrategy" -> LookaheadStrategy_evaluate(heap, ref)
      [] strategy = "SynergyStrategy" -> SynergyStrategy_evaluate(heap, ref)
      [] strategy = "BalancedStrategy" -> BalancedStrategy_evaluate(heap, ref)
      [] strategy = "Strategy" -> Strategy_evaluate(heap, ref)
      [] strategy = "ThrowingStrategy" -> Thrown(heap, "Error")
      [] strategy = "MalformedStrategy" -> ReturnedNoArray(heap)

\* strategy instanceof GreedyStrategy
InstanceofGreedy(strategy) == strategy = "GreedyStrategy"

-----------------------------------------------------------------------------
(* StrategyEngine.js: the engine.  recommend adds to the result of the     *)
(* call the classes whose evaluate it called, in order, and the class of   *)
(* this.strategy when it ends.                                             *)

EngineResult(res, evals, engineStrategy) ==
    [heap |-> res.heap, kind |-> res.kind, isArray |-> res.isArray, ref |-> res.ref,
     err |-> res.err, evals |-> evals, engineStrategy |-> engineStrategy]

\* A variant without the fallback: a failure of any strategy is rethrown.
RethrowFirst(strategy, first) ==
    IF first.kind = "return" /\ first.isArray
    THEN EngineResult(first, <<strategy>>, strategy)
    ELSE EngineResult(Thrown(first.heap, "Error"), <<strategy>>, strategy)
RecommendNoFallback(strategy, argIsArray, heap, ref) ==
    IF ~argIsArray
    THEN EngineResult(Thrown(heap, "Error"), <<>>, strategy)
    ELSE RethrowFirst(strategy, evaluate(strategy, heap, ref))

\* recommend once the active strategy's evaluate has ended with first: the
\* check of its result, and the catch block
recommend_afterEvaluate(strategy, ref, first) ==
    IF first.kind = "return" /\ first.isArray
    THEN EngineResult(first, <<strategy>>, strategy)
    ELSE IF ~InstanceofGreedy(strategy)
         THEN EngineResult(GreedyStrategy_evaluate(first.heap, ref),
                           <<strategy, "GreedyStrategy">>, "GreedyStrategy")
         ELSE EngineResult(Thrown(first.heap, IF first.kind = "throw" THEN first.err
                                              ELSE "Error"),
                           <<strategy>>, strategy)

StrategyEngine_recommend(strategy, argIsArray, heap, ref) ==
    IF ~argIsArray
    THEN EngineResult(Thrown(heap, "Error"), <<>>, strategy)
    ELSE recommend_afterEvaluate(strategy, ref, evaluate(strategy, heap, ref))

-----------------------------------------------------------------------------
(* EconomicModel: the normalised state.  A building of it is a record      *)
(* [id, name, owned, cost, baseCPS, totalCPS], an upgrade a record         *)
(* [id, name, cost, description, descriptionDetail].                       *)
(*                                                                         *)
(* A description is [str, toks]: str tells whether the value is a string,  *)
(* toks is what the patterns of UPGRADE_PATTERNS can find in it, in the    *)
(* order of the text:                                                      *)
(*   "mult"     "<v>x as efficient"        "pct"    "<v>%"                 *)
(*   "flat"     "+<v> cookies per"         "building"  a building name     *)
(*   "click"    the word click             "plain"  any other text         *)
(* The empty string has no tokens.                                         *)

Tok(t, v, name) == [t |-> t, v |-> v, name |-> name]
EmptyString == [str |-> TRUE, toks |-> <<>>]
\* a truthy value that is no string (a number, an object)
NonString == [str |-> FALSE, toks |-> <<>>]

\* String.prototype.toLowerCase on the names of the model
ToLowerCase(s) ==
    CASE s = "Cursor" -> "cursor"
      [] s = "Grandma" -> "grandma"
      [] OTHER -> s
\* description.toLowerCase()
DescToLowerCase(description) ==
    [description EXCEPT !.toks = [i \in 1..Len(description.toks) |->
        [description.toks[i] EXCEPT !.name = ToLowerCase(description.toks[i].name)]]]

\* a || b on descriptions: the empty string is falsy
DescOr(a, b) == IF a.str /\ a.toks = <<>> THEN b ELSE a

\* desc.match(pattern): the position of the first token the pattern matches,
\* 0 for no match
Match(desc, t) ==
    IF \E i \in 1..Len(desc.toks) : desc.toks[i].t = t
    THEN CHOOSE i \in 1..Len(desc.toks) :
            /\ desc.toks[i].t = t
            /\ \A j \in 1..(i - 1) : desc.toks[j].t # t
    ELSE 0

\* desc.includes('click') || desc.includes('cursor')
IncludesClickOrCursor(desc) ==
    \E i \in 1..Len(desc.toks) :
        \/ desc.toks[i].t = "click"
        \/ desc.toks[i].t = "building" /\ desc.toks[i].name = "cursor"

\* A variant of _findAffectedBuilding that, for a named building the state
\* does not hold, takes the first building the state holds.
FindAffectedBuildingGuesses(gs, desc) ==
    IF Match(desc, "building") = 0 THEN 0
    ELSE IF \E i \in 1..Len(gs.buildings) :
               ToLowerCase(gs.buildings[i].name)
                   = ToLowerCase(desc.toks[Match(desc, "building")].name)
         THEN CHOOSE i \in 1..Len(gs.buildings) :
                ToLowerCase(gs.buildings[i].name)
                    = ToLowerCase(desc.toks[Match(desc, "building")].name)
         ELSE IF gs.buildings # <<>> THEN 1 ELSE 0

\* The position in gameState.buildings of the building the description
\* names first, 0 for null.
_findAffectedBuilding(gs, desc) ==
    IF Match(desc, "building") = 0 THEN 0
    ELSE IF \E i \in 1..Len(gs.buildings) :
               ToLowerCase(gs.buildings[i].name)
                   = ToLowerCase(desc.toks[Match(desc, "building")].name)
         THEN CHOOSE i \in 1..Len(gs.buildings) :
                /\ ToLowerCase(gs.buildings[i].name)
                       = ToLowerCase(desc.toks[Match(desc, "building")].name)
                /\ \A j \in 1..(i - 1) :
                       ToLowerCase(gs.buildings[j].name)
                           # ToLowerCase(desc.toks[Match(desc, "building")].name)
         ELSE 0

\* parseFloat(match[1]) of a matched token
Matched(desc, t) == Num(desc.toks[Match(desc, t)].v)

\* A variant of the estimate that tries the percentage before the multiplier.
EstimatePercentFirst(gs, desc, affected) ==
    IF Match(desc, "pct") # 0
    THEN ( IF affected # 0
           THEN Mul(gs.buildings[affected].totalCPS, Div(Matched(desc, "pct"), Num(100)))
           ELSE Mul(gs.cookiesPerSecond, Div(Matched(desc, "pct"), Num(100))) )
    ELSE IF Match(desc, "mult") # 0 /\ affected # 0
    THEN Mul(gs.buildings[affected].totalCPS, Sub(Matched(desc, "mult"), Num(1)))
    ELSE IF Match(desc, "flat") # 0
    THEN Mul(Matched(desc, "flat"), Fin(3, 2))
    ELSE IF affected # 0
    THEN Mul(gs.buildings[affected].totalCPS, SYNERGY_MULTIPLIER)
    ELSE IF IncludesClickOrCursor(desc)
    THEN Mul(gs.cookiesPerSecond, CLICK_UPGRADE_WEIGHT)
    ELSE Mul(gs.cookiesPerSecond, CONSERVATIVE_BOOST)

\* _estimateUpgradeCPS once desc = description.toLowerCase() is there and
\* affected is what _findAffectedBuilding(desc) gives
estimateFromDesc(gs, desc, affected) ==
    IF Match(desc, "mult") # 0 /\ affected # 0
    THEN Mul(gs.buildings[affected].totalCPS, Sub(Matched(desc, "mult"), Num(1)))
    ELSE IF Match(desc, "pct") # 0
    THEN ( IF affected # 0
           THEN Mul(gs.buildings[affected].totalCPS, Div(Matched(desc, "pct"), Num(100)))
           ELSE Mul(gs.cookiesPerSecond, Div(Matched(desc, "pct"), Num(100))) )
    ELSE IF Match(desc, "flat") # 0
    THEN Mul(Matched(desc, "flat"), Fin(3, 2))
    ELSE IF affected # 0
    THEN Mul(gs.buildings[affected].totalCPS, SYNERGY_MULTIPLIER)
    ELSE IF IncludesClickOrCursor(desc)
    THEN Mul(gs.cookiesPerSecond, CLICK_UPGRADE_WEIGHT)
    ELSE Mul(gs.cookiesPerSecond, CONSERVATIVE_BOOST)

\* The description is a string here: toLowerCase of anything else throws.
_estimateUpgradeCPS(gs, description) ==
    estimateFromDesc(gs, DescToLowerCase(description),
                     _findAffectedBuilding(gs, DescToLowerCase(description)))

\* A variant of _calculateROITime without the check of the quotient.
ROITimeUnchecked(cost, deltaCPS) ==
    IF Lt(deltaCPS, MIN_VALID_DELTA_CPS) THEN PosInf ELSE Div(cost, deltaCPS)

\* A variant of _calculateROITime that also refuses a deltaCPS equal to the
\* threshold.
ROITimeThresholdInclusive(cost, deltaCPS) ==
    IF Le(deltaCPS, MIN_VALID_DELTA_CPS) THEN PosInf
    ELSE IF ~IsFinite(Div(cost, deltaCPS)) \/ Lt(Div(cost, deltaCPS), Num(0)) THEN PosInf
    ELSE Div(cost, deltaCPS)

_calculateROITime(cost, deltaCPS) ==
    IF Lt(deltaCPS, MIN_VALID_DELTA_CPS) THEN PosInf
    ELSE IF ~IsFinite(Div(cost, deltaCPS)) \/ Lt(Div(cost, deltaCPS), Num(0)) THEN PosInf
    ELSE Div(cost, deltaCPS)

\* The outcome of a calculate call: the candidate or null it returns, or
\* the error it throws.
Calculated(cand) == [threw |-> "no", cand |-> cand]
CalculateThrew(err) == [threw |-> err, cand |-> NullEntry]

Candidate(id, type, cost, deltaCPS) ==
    [Cand(type, cost, deltaCPS, _calculateROITime(cost, deltaCPS), {}) EXCEPT !.id = id]

\* Variants of the multiplier: one that divides whatever totalCPS is, one
\* that divides whatever the owned count is.
BuildingMultiplierIgnoresTotal(building) ==
    IF Lt(Num(0), building.owned) /\ Lt(Num(0), Mul(building.baseCPS, building.owned))
    THEN Div(building.totalCPS, Mul(building.baseCPS, building.owned))
    ELSE Num(1)
BuildingMultiplierIgnoresOwned(building) ==
    IF Lt(Num(0), building.totalCPS)
    THEN Div(building.totalCPS, Mul(building.baseCPS, building.owned))
    ELSE Num(1)

\* the multiplier calculateBuildingROI derives from the observed total rate
BuildingMultiplier(building) ==
    IF Lt(Num(0), building.owned) /\ Lt(Num(0), building.totalCPS)
       /\ Lt(Num(0), Mul(building.baseCPS, building.owned))
    THEN Div(building.totalCPS, Mul(building.baseCPS, building.owned))
    ELSE Num(1)

calculateBuildingROI(building) ==
    IF Le(building.cost, Num(0)) \/ Lt(building.baseCPS, Num(0))
    THEN Calculated(NullEntry)
    ELSE Calculated(Candidate(building.id, "building", building.cost,
                              Mul(building.baseCPS, BuildingMultiplier(building))))

calculateUpgradeROI(gs, upgrade) ==
    IF Le(upgrade.cost, Num(0)) THEN Calculated(NullEntry)
    ELSE IF ~DescOr(upgrade.descriptionDetail, upgrade.description).str
    THEN CalculateThrew("TypeError")
    ELSE Calculated(Candidate(upgrade.id, "upgrade", upgrade.cost,
             _estimateUpgradeCPS(gs, DescOr(upgrade.descriptionDetail,
                                            upgrade.description))))

-----------------------------------------------------------------------------
(* The snapshot: window.Game.  present = FALSE is a missing Game.  A       *)
(* building-like is [obj, name, amount, price, cpsType, cps, cpsThrows,    *)
(* storedCps]: cpsType is typeof building.cps; for a function, cps is what *)
(* it returns and cpsThrows what it throws instead ("no" for nothing).     *)
(* An upgrade-like is [obj, name, getPriceType, getPrice, getPriceThrows,  *)
(* basePrice, desc, ddesc] in the same way.  name = "" is the empty        *)
(* string; every name of the model is a string.                            *)
(*                                                                         *)
(* Three builds of the advisor differ in the code modelled here:           *)
(*   "modular"      advisor.js on top of the single modules                *)
(*   "easyStart"    cookie-advisor-easy-start.js                           *)
(*   "easyStart2"   the easy-start bundle with useGreedy / useRelaxed      *)

Bundles == {"modular", "easyStart", "easyStart2"}

isValidGameObject(game) ==
    IF ~game.present THEN FALSE
    ELSE IF ~TypeofNumber(game.cookies) THEN FALSE
    ELSE IF ~TypeofNumber(game.cookiesPs) THEN FALSE
    ELSE IF ~game.hasObjects THEN FALSE
    ELSE IF ~game.hasUpgradesInStore THEN FALSE
    ELSE TRUE

isValidBuilding(bundle, building) ==
    IF ~building.obj THEN FALSE
    ELSE IF building.name = "" THEN FALSE
    ELSE IF ~TypeofNumber(building.amount) THEN FALSE
    ELSE IF ~TypeofNumber(building.price) \/ Lt(building.price, Num(0)) THEN FALSE
    ELSE IF bundle = "modular"
    THEN ~(building.cpsType # "number" \/ Lt(building.cps, Num(0)))
    ELSE ~(building.cpsType # "function" /\ ~TypeofNumber(building.storedCps))

isValidUpgrade(upgrade) ==
    IF ~upgrade.obj THEN FALSE
    ELSE IF upgrade.name = "" THEN FALSE
    ELSE IF upgrade.getPriceType # "function" /\ ~TypeofNumber(upgrade.basePrice) THEN FALSE
    ELSE TRUE

isValidGameState(gs) ==
    TypeofNumber(gs.cookies) /\ TypeofNumber(gs.cookiesPerSecond)

\* The calls the adapter makes on the snapshot, with the number of arguments
\* A variant of the price call that hands the upgrade to the accessor.
PriceCallWithArgument == [method |-> "getPrice", args |-> 1]
PriceCall == [method |-> "getPrice", args |-> 0]
RateCall == [method |-> "cps", args |-> 1]

\* What an extraction has done so far: the error a call on the snapshot has
\* thrown ("no" for none), the states extracted, the calls made.
NoExtraction == [threw |-> "no", buildings |-> <<>>, upgrades |-> <<>>, calls |-> {}]

BuildingState(building, key, baseCPS) ==
    [type |-> "building", id |-> key, name |-> building.name, owned |-> building.amount,
     cost |-> building.price, baseCPS |-> baseCPS, totalCPS |-> OrZero(building.storedCps),
     description |-> EmptyString, descriptionDetail |-> EmptyString]

\* _extractBuildingState, and the push of its result
_extractBuildingState(bundle, acc, building, key) ==
    IF bundle = "modular"
    THEN [acc EXCEPT !.buildings = Append(@, BuildingState(building, key, building.cps))]
    ELSE IF building.cpsType = "function"
    THEN ( IF building.cpsThrows # "no"
           THEN [acc EXCEPT !.threw = building.cpsThrows, !.calls = @ \cup {RateCall}]
           ELSE [acc EXCEPT !.buildings = Append(@, BuildingState(building, key, building.cps)),
                            !.calls = @ \cup {RateCall}] )
    ELSE [acc EXCEPT !.buildings = Append(@,
             BuildingState(building, key,
                 IF building.cpsType = "number" THEN OrZero(building.cps) ELSE Num(0)))]

\* A variant of the loop that ends at the first building that fails
\* validation.
RECURSIVE ExtractBuildingsUntilInvalid(_, _, _, _)
ExtractBuildingsUntilInvalid(bundle, Objects, key, acc) ==
    IF key > Len(Objects) \/ acc.threw # "no" THEN acc
    ELSE IF ~isValidBuilding(bundle, Objects[key]) THEN acc
    ELSE ExtractBuildingsUntilInvalid(bundle, Objects, key + 1,
             _extractBuildingState(bundle, acc, Objects[key], key))

\* The loop of _extractBuildings from the key-th building on
RECURSIVE _extractBuildings(_, _, _, _)
_extractBuildings(bundle, Objects, key, acc) ==
    IF key > Len(Objects) \/ acc.threw # "no" THEN acc
    ELSE _extractBuildings(bundle, Objects, key + 1,
             IF isValidBuilding(bundle, Objects[key])
             THEN _extractBuildingState(bundle, acc, Objects[key], key)
             ELSE acc)

\* ids of upgrades ('upgrade_<index>') are numbers apart from the keys of
\* the buildings
UpgradeId(index) == 100 + index

UpgradeState(upgrade, index, cost) ==
    [type |-> "upgrade", id |-> UpgradeId(index), name |-> upgrade.name, owned |-> Undefined,
     cost |-> cost, baseCPS |-> Undefined, totalCPS |-> Undefined,
     description |-> DescOr(upgrade.desc, EmptyString),
     descriptionDetail |-> DescOr(upgrade.ddesc, EmptyString)]

_extractUpgradeState(acc, upgrade, index) ==
    IF upgrade.getPriceType = "function"
    THEN ( IF upgrade.getPriceThrows # "no"
           THEN [acc EXCEPT !.threw = upgrade.getPriceThrows, !.calls = @ \cup {PriceCall}]
           ELSE [acc EXCEPT !.upgrades = Append(@, UpgradeState(upgrade, index, upgrade.getPrice)),
                            !.calls = @ \cup {PriceCall}] )
    ELSE [acc EXCEPT !.upgrades = Append(@, UpgradeState(upgrade, index,
             IF TypeofNumber(upgrade.basePrice) THEN upgrade.basePrice ELSE Num(0)))]

\* The loop of _extractUpgrades from index i - 1 on
RECURSIVE _extractUpgrades(_, _, _)
_extractUpgrades(UpgradesInStore, i, acc) ==
    IF i > Len(UpgradesInStore) \/ acc.threw # "no" THEN acc
    ELSE _extractUpgrades(UpgradesInStore, i + 1,
             IF isValidUpgrade(UpgradesInStore[i])
             THEN _extractUpgradeState(acc, UpgradesInStore[i], i - 1)
             ELSE acc)

\* A run of the pipeline: the error thrown so far, the calls made on the
\* snapshot, the normalised state, the candidates.
Run(game, acc) ==
    [threw |-> acc.threw, calls |-> acc.calls,
     gs |-> [cookies |-> game.cookies, cookiesPerSecond |-> game.cookiesPs,
             buildings |-> acc.buildings, upgrades |-> acc.upgrades],
     candidates |-> <<>>]

\* new GameStateAdapter(game).getGameState() on a valid Game
getGameState(bundle, game) ==
    Run(game, _extractUpgrades(game.UpgradesInStore, 1,
                  _extractBuildings(bundle, game.Objects, 1, NoExtraction)))

\* calculateBuildingROI or calculateUpgradeROI, by the list the item is in
calculateROI(gs, it) ==
    IF it.type = "building" THEN calculateBuildingROI(it) ELSE calculateUpgradeROI(gs, it)

\* A variant that pushes only what the cookies in the bank can pay.
PushAffordableROI(run, res) ==
    IF res.threw # "no" THEN [run EXCEPT !.threw = res.threw]
    ELSE IF res.cand.obj /\ Le(res.cand.cost, run.gs.cookies)
    THEN [run EXCEPT !.candidates = Append(@, res.cand)]
    ELSE run

\* if (roi) candidates.push(roi)
PushROI(run, res) ==
    IF res.threw # "no" THEN [run EXCEPT !.threw = res.threw]
    ELSE IF res.cand.obj THEN [run EXCEPT !.candidates = Append(@, res.cand)]
    ELSE run

\* The two loops of getAllCandidates: the buildings, then the upgrades
RECURSIVE candidatesFrom(_, _, _)
candidatesFrom(items, i, run) ==
    IF i > Len(items) \/ run.threw # "no" THEN run
    ELSE candidatesFrom(items, i + 1, PushROI(run, calculateROI(run.gs, items[i])))

\* new EconomicModel(gameState).getAllCandidates() on the state of a run
getAllCandidates(run) == candidatesFrom(run.gs.buildings \o run.gs.upgrades, 1, run)

-----------------------------------------------------------------------------
(* CookieAdvisor: the public API.  The outcome of a call is a record:      *)
(*   kind, err   "return", or "throw" with the error that leaves the call  *)
(*   value       the candidate returned, NullEntry for null or undefined   *)
(*   list        the alternatives rendered by analyze and showAll, the     *)
(*               array returned by getAllRecommendations                   *)
(*   cached      whether lastRecommendation was assigned (value to it)     *)
(*   calls       the calls made on the snapshot                            *)
(*   evals       the classes whose evaluate the engine called              *)
(*   log         the error or warning the operation itself writes to the   *)
(*               console, "none" for none                                  *)

Outcome(kind, err, value, list, cached, calls, evals) ==
    [kind |-> kind, err |-> err, value |-> value, list |-> list, cached |-> cached,
     calls |-> calls, evals |-> evals, log |-> "none"]
\* o after console.error(msg) or console.warn(msg)
Logged(o, msg) == [o EXCEPT !.log = msg]
ReturnNull(calls, evals) == Outcome("return", "none", NullEntry, <<>>, FALSE, calls, evals)
ReturnList(list, calls, evals) ==
    Outcome("return", "none", NullEntry, list, FALSE, calls, evals)

\* array.slice(from, to)
Slice(array, from, to) ==
    SubSeq(array, from + 1, IF to < Len(array) THEN to ELSE Len(array))

\* The catch block of analyze and showAll: console.error(error.stack) reads
\* a property of the thrown value, which throws a TypeError for null and
\* undefined.
analyze_catch(err, calls, evals) ==
    IF err = "nullish"
    THEN Logged(Outcome("throw", "TypeError", NullEntry, <<>>, FALSE, calls, evals),
                "Error during analysis")
    ELSE Logged(ReturnNull(calls, evals), "Error during analysis")

\* A variant of step 4 that ranks with the engine on a GreedyStrategy where
\* showAll ranks inline.
RankedByEngineOnly(ranker, array) ==
    IF ranker = "inline"
    THEN StrategyEngine_recommend("GreedyStrategy", TRUE, <<array>>, 1)
    ELSE StrategyEngine_recommend(ranker, TRUE, <<array>>, 1)

\* Step 4, by the ranker: the engine on a strategy, or the inline ranking of
\* showAll ("inline")
Ranked(ranker, array) ==
    IF ranker = "inline"
    THEN EngineResult(RelaxedStrategy_evaluate(<<array>>, 1), <<>>, "none")
    ELSE StrategyEngine_recommend(ranker, TRUE, <<array>>, 1)

\* A variant of step 5 that hands one alternative more to the renderer.
AnalyzeSixAlternatives(ranker, calls, rec) ==
    IF rec.kind = "throw" THEN analyze_catch(rec.err, calls, rec.evals)
    ELSE IF Len(rec.heap[rec.ref]) = 0
    THEN Logged(ReturnNull(calls, rec.evals), "No valid recommendations after filtering")
    ELSE Outcome("return", "none", rec.heap[rec.ref][1],
                 Slice(rec.heap[rec.ref], 1, TOP_ALTERNATIVES_COUNT + 2),
                 TRUE, calls, rec.evals)

\* Step 5 and the return, once the ranking has ended with rec
analyze_afterRanking(ranker, calls, rec) ==
    IF rec.kind = "throw" THEN analyze_catch(rec.err, calls, rec.evals)
    ELSE IF Len(rec.heap[rec.ref]) = 0
    THEN Logged(ReturnNull(calls, rec.evals),
                IF ranker = "inline" THEN "No valid candidates found even without time filter"
                ELSE "No valid recommendations after filtering")
    ELSE Outcome("return", "none", rec.heap[rec.ref][1],
                 Slice(rec.heap[rec.ref], 1, TOP_ALTERNATIVES_COUNT + 1),
                 TRUE, calls, rec.evals)

\* Steps 3 and 4, once the state has been extracted and checked
analyze_afterCandidates(ranker, run) ==
    IF run.threw # "no" THEN analyze_catch(run.threw, run.calls, <<>>)
    ELSE IF Len(run.candidates) = 0
    THEN Logged(ReturnNull(run.calls, <<>>), "No purchase candidates found")
    ELSE analyze_afterRanking(ranker, run.calls, Ranked(ranker, run.candidates))

\* The check of the extracted state
analyze_afterGameState(ranker, run) ==
    IF run.threw # "no" THEN analyze_catch(run.threw, run.calls, <<>>)
    ELSE IF ~isValidGameState(run.gs)
    THEN Logged(ReturnNull(run.calls, <<>>), "Failed to extract valid game state")
    ELSE analyze_afterCandidates(ranker, getAllCandidates(run))

\* A variant of analyze that reports an invalid Game as a lack of candidates.
AnalyzeInvalidAsNoCandidates(bundle, ranker, game) ==
    IF ~game.present
    THEN Logged(ReturnNull({}, <<>>), "Cookie Clicker Game object not found")
    ELSE IF ~isValidGameObject(game)
    THEN Logged(ReturnNull({}, <<>>), "No purchase candidates found")
    ELSE analyze_afterGameState(ranker, getGameState(bundle, game))

\* analyze() with the given strategy selected; with "inline", the showAll()
\* of the builds that repeat the steps of analyze with their own ranking
analyze(bundle, ranker, game) ==
    IF ~game.present
    THEN Logged(ReturnNull({}, <<>>), "Cookie Clicker Game object not found")
    ELSE IF ~isValidGameObject(game)
    THEN Logged(ReturnNull({}, <<>>), "Game object is invalid or incomplete")
    ELSE analyze_afterGameState(ranker, getGameState(bundle, game))

\* Adapter and model of the three quiet operations: the constructor of the
\* adapter throws on an invalid Game, and every error ends in the catch
\* block of the operation.
InvalidGameRun ==
    [threw |-> "Error", calls |-> {},
     gs |-> [cookies |-> Undefined, cookiesPerSecond |-> Undefined,
             buildings |-> <<>>, upgrades |-> <<>>],
     candidates |-> <<>>]
Candidates(bundle, game) ==
    IF ~isValidGameObject(game) THEN InvalidGameRun
    ELSE getAllCandidates(getGameState(bundle, game))

getRecommendation_afterRanking(calls, rec) ==
    IF rec.kind = "throw"
    THEN Logged(ReturnNull(calls, rec.evals), "Error getting recommendation")
    ELSE IF Len(rec.heap[rec.ref]) > 0
    THEN Outcome("return", "none", rec.heap[rec.ref][1], <<>>, FALSE, calls, rec.evals)
    ELSE ReturnNull(calls, rec.evals)
getRecommendation_afterCandidates(strategy, run) ==
    IF run.threw # "no"
    THEN Logged(ReturnNull(run.calls, <<>>), "Error getting recommendation")
    ELSE getRecommendation_afterRanking(run.calls, Ranked(strategy, run.candidates))
getRecommendation(bundle, strategy, game) ==
    IF ~game.present THEN ReturnNull({}, <<>>)
    ELSE getRecommendation_afterCandidates(strategy, Candidates(bundle, game))

getAllRecommendations_afterRanking(limit, calls, rec) ==
    IF rec.kind = "throw"
    THEN Logged(ReturnList(<<>>, calls, rec.evals), "Error getting recommendations")
    ELSE ReturnList(Slice(rec.heap[rec.ref], 0, limit), calls, rec.evals)
getAllRecommendations_afterCandidates(strategy, limit, run) ==
    IF run.threw # "no"
    THEN Logged(ReturnList(<<>>, run.calls, <<>>), "Error getting recommendations")
    ELSE getAllRecommendations_afterRanking(limit, run.calls,
                                            Ranked(strategy, run.candidates))
getAllRecommendations(bundle, strategy, game, limit) ==
    IF ~game.present THEN ReturnList(<<>>, {}, <<>>)
    ELSE getAllRecommendations_afterCandidates(strategy, limit, Candidates(bundle, game))

\* debug() builds adapter and model, ranks nothing and returns nothing
debug_afterCandidates(run) ==
    IF run.threw # "no" THEN Logged(ReturnNull(run.calls, <<>>), "Error in debug")
    ELSE ReturnNull(run.calls, <<>>)
debug(bundle, game) ==
    IF ~game.present THEN ReturnNull({}, <<>>)
    ELSE debug_afterCandidates(Candidates(bundle, game))

\* strategy instanceof Strategy
InstanceofStrategy(strategy) == strategy \in Strategies
\* currentStrategy.getName(): the name of the class
getStrategyName(strategy) == strategy

-----------------------------------------------------------------------------
(* The advisor loaded in a page, on a snapshot the host leaves unchanged.  *)

MaxBuildings == 2
MaxUpgrades == 1

BuildingLike(name, amount, price, cpsType, cps, cpsThrows, storedCps) ==
    [obj |-> TRUE, name |-> name, amount |-> amount, price |-> price, cpsType |-> cpsType,
     cps |-> cps, cpsThrows |-> cpsThrows, storedCps |-> storedCps]
UpgradeLike(name, getPriceType, getPrice, getPriceThrows, basePrice, ddesc) ==
    [obj |-> TRUE, name |-> name, getPriceType |-> getPriceType, getPrice |-> getPrice,
     getPriceThrows |-> getPriceThrows, basePrice |-> basePrice, desc |-> EmptyString,
     ddesc |-> ddesc]

\* Buildings: one that pays back in 5 s, one that pays back in 5 s with half
\* the rate, one that pays back in 10000 s, ones whose rate is an accessor
\* that returns 10, throws an Error or throws null, one without a name.
BuildingLikes ==
    { BuildingLike("Grandma", Num(2), Num(100), "number", Num(10), "no", Num(40)),
      BuildingLike("Cursor", Num(0), Num(50), "number", Num(10), "no", Num(0)),
      BuildingLike("Cursor", Num(0), Num(100), "number", Fin(1, 100), "no", Num(0)),
      BuildingLike("Grandma", Num(0), Num(100), "function", Num(10), "no", Undefined),
      BuildingLike("Grandma", Num(0), Num(100), "function", Undefined, "Error", Num(0)),
      BuildingLike("Grandma", Num(0), Num(100), "function", Undefined, "nullish", Num(0)),
      BuildingLike("", Num(0), Num(100), "number", Num(10), "no", Num(0)) }
\* Upgrades: a price accessor and a description that doubles the Grandmas,
\* a stored price and a description that is no string, a price accessor that
\* throws null.
UpgradeLikes ==
    { UpgradeLike("Forwards from grandma", "function", Num(10000), "no", Undefined,
                  [str |-> TRUE, toks |-> <<Tok("building", 0, "Grandma"), Tok("mult", 2, "")>>]),
      UpgradeLike("Plain", "undefined", Undefined, "no", Num(1000), NonString),
      UpgradeLike("Thrower", "function", Undefined, "nullish", Undefined, EmptyString) }

RECURSIVE ListsUpTo(_, _)
ListsUpTo(S, n) ==
    IF n = 0 THEN {<<>>}
    ELSE ListsUpTo(S, n - 1)
         \cup { Append(l, x) : l \in { y \in ListsUpTo(S, n - 1) : Len(y) = n - 1 }, x \in S }

GameObject(present, cookies, Objects, UpgradesInStore) ==
    [present |-> present, cookies |-> cookies, cookiesPs |-> Num(100), hasObjects |-> TRUE,
     Objects |-> Objects, hasUpgradesInStore |-> TRUE, UpgradesInStore |-> UpgradesInStore]
\* No Game at all, a Game without cookies, and the Games over the buildings
\* and upgrades above
Games ==
    { GameObject(FALSE, Undefined, <<>>, <<>>), GameObject(TRUE, Undefined, <<>>, <<>>) }
    \cup { GameObject(TRUE, Num(1000), Objects, UpgradesInStore) :
             Objects \in ListsUpTo(BuildingLikes, MaxBuildings),
             UpgradesInStore \in ListsUpTo(UpgradeLikes, MaxUpgrades) }

\* The strategies a host hands to setStrategy, and a value that is none
AdvisorStrategies == {"GreedyStrategy", "RelaxedStrategy", "LookaheadStrategy", "Strategy"}
NotAStrategy == "NotAStrategy"

\* history tells how the last analyze() calls went.  policy is the policy that
\* was selected at the last one and out what it showed; stage is "once" when
\* it was the first under that policy, "twice" when it followed another one
\* under that policy directly and "twiceAfterOther" when other operations ran
\* between the two; same tells whether the two showed the same.  Operations
\* after the last one turn the stage to "other".
NoHistory == [stage |-> "none", policy |-> "none", out |-> <<>>, same |-> TRUE]
Shown(o) == <<o.kind, o.err, o.value, o.list>>
Analyzed(o) ==
    IF history.stage = "none" \/ history.policy # selected
    THEN [stage |-> "once", policy |-> selected, out |-> Shown(o), same |-> TRUE]
    ELSE [stage |-> IF history.stage = "other" THEN "twiceAfterOther" ELSE "twice",
          policy |-> selected, out |-> Shown(o), same |-> Shown(o) = history.out]
OtherRan == IF history.stage = "none" THEN history ELSE [history EXCEPT !.stage = "other"]

\* last tells which operation ran last and what its caller got: a return or
\* a throw, the value and list of the outcome, whether lastRecommendation was
\* assigned and what was written to the console.
NoLast ==
    [op |-> "none", kind |-> "return", err |-> "none", value |-> NullEntry, list |-> <<>>,
     cached |-> FALSE, log |-> "none"]
Last(op, o) ==
    [op |-> op, kind |-> o.kind, err |-> o.err, value |-> o.value, list |-> o.list,
     cached |-> o.cached, log |-> o.log]

AdvisorIdle ==
    /\ loaded = "modular"
    /\ Game = GameObject(FALSE, Undefined, <<>>, <<>>)
    /\ Game0 = Game
    /\ currentStrategy = "GreedyStrategy"
    /\ selected = "GreedyStrategy"
    /\ lastRecommendation = NullEntry
    /\ history = NoHistory
    /\ snapshotCalls = {}
    /\ last = NoLast

-----------------------------------------------------------------------------
(* Direct calls of evaluate and recommend on an arbitrary array.           *)

MaxCandidates == 3

\* What a candidate of an arbitrary array can look like: well-formed ones on
\* both sides of the ceiling and with equal payback times, ones whose roiTime
\* is no valid payback time, ones whose structure is invalid, and null.
\* A candidate with a valid roiTime carries a numeric deltaCPS, as every
\* candidate of the economic model does.
CandidateDomain ==
    { Cand("building", Num(100), Num(1), Num(10), {}),
      Cand("upgrade", Num(200), Num(2), Num(10), {}),
      Cand("building", Num(100), Num(1), Num(MAX_REASONABLE_ROI), {}),
      Cand("building", Num(100), Num(2), Num(MAX_REASONABLE_ROI + 1), {}),
      Cand("upgrade", Num(100), Num(1), Num(MAX_REASONABLE_ROI + 1), {}) }
    \cup { Cand("upgrade", Num(100), NaN, r, {}) :
            r \in {PosInf, NaN, Undefined, Num(0), Num(-5)} }
    \cup { Cand("upgrade", Num(0), Num(1), Num(10), {}),
           Cand("building", NaN, Num(1), Num(10), {}),
           Cand("other", Num(100), Num(1), Num(10), {}),
           Cand("building", Num(100), Num(1), Num(10), {"name"}),
           NullEntry }

RECURSIVE ArraysUpTo(_)
ArraysUpTo(n) ==
    IF n = 0 THEN {<<>>}
    ELSE LET shorter == ArraysUpTo(n - 1)
         IN  shorter \cup { Append(a, c) : a \in { x \in shorter : Len(x) = n - 1 },
                                            c \in CandidateDomain }

\* ids are unique within an array: the position in the caller's array
WithIds(a) == [i \in 1..Len(a) |-> [a[i] EXCEPT !.id = i]]

NoCall ==
    [op |-> "none", strategy |-> "none", argIsArray |-> TRUE, kind |-> "none",
     isArray |-> FALSE, fresh |-> FALSE, result |-> <<>>, err |-> "none",
     evals |-> <<>>, engineStrategy |-> "none"]

CallRecord(op, strategy, argIsArray, res, evals, engineStrategy) ==
    [op |-> op, strategy |-> strategy, argIsArray |-> argIsArray, kind |-> res.kind,
     isArray |-> res.isArray, fresh |-> res.ref # 1,
     result |-> IF res.ref = 0 THEN <<>> ELSE res.heap[res.ref],
     err |-> res.err, evals |-> evals, engineStrategy |-> engineStrategy]

NoROI == [op |-> "none", threw |-> "no", cand |-> NullEntry]
ROIRecord(op, res) == [op |-> op, threw |-> res.threw, cand |-> res.cand]

ROIIdle ==
    /\ gameState = [cookies |-> Num(0), cookiesPerSecond |-> Num(0),
                    buildings |-> <<>>, upgrades |-> <<>>]
    /\ item = NullEntry
    /\ roi = NoROI

RankInit ==
    /\ candidates \in { WithIds(a) : a \in ArraysUpTo(MaxCandidates) }
    /\ input = candidates
    /\ ranking = NoCall
    /\ ROIIdle
    /\ AdvisorIdle

\* A behaviour of SpecRank is one call on one array.
\* strategy.evaluate(candidates) on a strategy of the given class
\* The call has ended with res: the caller's array is what the call left
Called(op, strategy, argIsArray, res) ==
    /\ ranking = NoCall
    /\ input' = candidates
    /\ candidates' = res.heap[1]
    /\ ranking' = CallRecord(op, strategy, argIsArray, res, res.evals, res.engineStrategy)
    /\ UNCHANGED <<roiVars, advisorVars>>

Evaluate(strategy) ==
    Called("evaluate", strategy, TRUE,
           EngineResult(evaluate(strategy, <<candidates>>, 1), <<strategy>>, strategy))

\* new StrategyEngine(strategy).recommend(candidates); with argIsArray FALSE
\* the argument is something that is not an array
Recommend(strategy, argIsArray) ==
    Called("recommend", strategy, argIsArray,
           StrategyEngine_recommend(strategy, argIsArray, <<candidates>>, 1))

RankNext ==
    \/ \E strategy \in Strategies : Evaluate(strategy)
    \/ \E strategy \in Strategies, argIsArray \in BOOLEAN : Recommend(strategy, argIsArray)

SpecRank == RankInit /\ [][RankNext]_vars

-----------------------------------------------------------------------------
(* Direct calls of calculateBuildingROI and calculateUpgradeROI of an      *)
(* EconomicModel built on an arbitrary normalised state.                   *)

MaxTokens == 2

\* Numbers a field of the normalised state can hold, and undefined
Costs == {Num(-5), Num(0), Num(100), PosInf, NaN, Undefined}
\* (1/1000 is MIN_VALID_DELTA_CPS itself, 1/2000 lies below it)
Rates == {Num(-1), Num(0), Fin(1, 2000), Fin(1, 1000), Num(10), PosInf, NaN, Undefined}
TotalRates == {Num(-40), Num(0), Num(40), PosInf, NaN}
Tokens ==
    { Tok("mult", 0, ""), Tok("mult", 2, ""), Tok("pct", 0, ""), Tok("pct", 50, ""),
      Tok("flat", 10, ""), Tok("building", 0, "Grandma"), Tok("building", 0, "cursor"),
      Tok("click", 0, ""), Tok("plain", 0, "") }

RECURSIVE TokensUpTo(_)
TokensUpTo(n) ==
    IF n = 0 THEN {<<>>}
    ELSE TokensUpTo(n - 1)
         \cup { Append(d, t) : d \in { x \in TokensUpTo(n - 1) : Len(x) = n - 1 },
                               t \in Tokens }
\* Descriptions that name a building and match two of the numeric patterns
SeveralPatterns ==
    { <<Tok("building", 0, "Grandma"), Tok("mult", 2, ""), Tok("pct", 50, "")>>,
      <<Tok("pct", 50, ""), Tok("mult", 2, ""), Tok("building", 0, "Grandma")>>,
      <<Tok("building", 0, "Grandma"), Tok("flat", 10, ""), Tok("mult", 2, "")>>,
      <<Tok("flat", 10, ""), Tok("building", 0, "Grandma"), Tok("pct", 50, "")>> }
Descriptions ==
    { [str |-> TRUE, toks |-> toks] : toks \in TokensUpTo(MaxTokens) \cup SeveralPatterns }
        \cup {NonString}

BuildingStates ==
    { [type |-> "building", id |-> 1, name |-> "Grandma", owned |-> owned, cost |-> cost,
       baseCPS |-> baseCPS, totalCPS |-> totalCPS,
       description |-> EmptyString, descriptionDetail |-> EmptyString] :
      owned \in {Num(0), Num(2)}, cost \in Costs, baseCPS \in Rates,
      totalCPS \in TotalRates \ {Num(-40)} }
    \cup
    \* a first Cursor, and a sixth Grandma whose five make 6 per second
    { [type |-> "building", id |-> 2, name |-> "Cursor", owned |-> Num(0), cost |-> Num(15),
       baseCPS |-> Fin(1, 10), totalCPS |-> Num(0),
       description |-> EmptyString, descriptionDetail |-> EmptyString],
      [type |-> "building", id |-> 1, name |-> "Grandma", owned |-> Num(5), cost |-> Num(1000),
       baseCPS |-> Num(1), totalCPS |-> Num(6),
       description |-> EmptyString, descriptionDetail |-> EmptyString] }
UpgradeStates ==
    { [type |-> "upgrade", id |-> 101, name |-> "Upgrade", owned |-> Undefined,
       cost |-> cost, baseCPS |-> Undefined, totalCPS |-> Undefined,
       description |-> description, descriptionDetail |-> descriptionDetail] :
      cost \in Costs, description \in {EmptyString, [str |-> TRUE, toks |-> <<Tok("click", 0, "")>>]},
      descriptionDetail \in Descriptions }
\* The states: a rate of the whole game, and no building or one Grandma
GameStates ==
    { [cookies |-> Num(0), cookiesPerSecond |-> cookiesPerSecond, buildings |-> buildings,
       upgrades |-> <<>>] :
      cookiesPerSecond \in {Num(-100), Num(0), Num(100), PosInf, NaN},
      buildings \in {<<>>} \cup
          { <<[type |-> "building", id |-> 1, name |-> "Grandma", owned |-> Num(2),
               cost |-> Num(100), baseCPS |-> Num(10), totalCPS |-> totalCPS,
               description |-> EmptyString, descriptionDetail |-> EmptyString]>> :
            totalCPS \in TotalRates } }

RankIdle == candidates = <<>> /\ input = <<>> /\ ranking = NoCall

ROIInit ==
    /\ gameState \in GameStates
    /\ item \in BuildingStates \cup UpgradeStates
    /\ roi = NoROI
    /\ RankIdle
    /\ AdvisorIdle

\* new EconomicModel(gameState).calculateBuildingROI(item)
CalculateBuildingROI ==
    /\ roi = NoROI
    /\ item.type = "building"
    /\ roi' = ROIRecord("calculateBuildingROI", calculateBuildingROI(item))
    /\ UNCHANGED <<gameState, item, rankVars, advisorVars>>

\* new EconomicModel(gameState).calculateUpgradeROI(item)
CalculateUpgradeROI ==
    /\ roi = NoROI
    /\ item.type = "upgrade"
    /\ roi' = ROIRecord("calculateUpgradeROI", calculateUpgradeROI(gameState, item))
    /\ UNCHANGED <<gameState, item, rankVars, advisorVars>>

\* Steps 3 and 4 of analyze() (showAll() for "inline") when the item is the
\* only one of the state: the candidate calculated for it, if there is one,
\* is ranked, with the result res
RankCalculated_done(strategy, res) ==
    /\ roi.op # "none" /\ roi.threw = "no" /\ roi.cand.obj
    /\ ranking = NoCall
    /\ input' = <<roi.cand>>
    /\ candidates' = res.heap[1]
    /\ ranking' = CallRecord("recommend", strategy, TRUE, res, res.evals, res.engineStrategy)
    /\ UNCHANGED <<roiVars, advisorVars>>
RankCalculated(strategy) == RankCalculated_done(strategy, Ranked(strategy, <<roi.cand>>))

ROINext ==
    \/ CalculateBuildingROI
    \/ CalculateUpgradeROI
    \/ \E strategy \in {"GreedyStrategy", "RelaxedStrategy", "inline"} : RankCalculated(strategy)

SpecROI == ROIInit /\ [][ROINext]_vars

-----------------------------------------------------------------------------
(* The operations of CookieAdvisor, in any order.                          *)

Init ==
    /\ loaded \in Bundles
    /\ Game \in Games
    /\ Game0 = Game
    /\ currentStrategy = "GreedyStrategy"
    /\ selected = "GreedyStrategy"
    /\ lastRecommendation = NullEntry
    /\ history = NoHistory
    /\ snapshotCalls = {}
    /\ last = NoLast
    /\ RankIdle
    /\ ROIIdle

\* What every operation leaves alone
Frame == UNCHANGED <<loaded, Game, Game0, rankVars, roiVars>>

\* analyze() has ended with o
analyze_done(o) ==
    /\ lastRecommendation' = IF o.cached THEN o.value ELSE lastRecommendation
    /\ snapshotCalls' = snapshotCalls \cup o.calls
    /\ history' = Analyzed(o)
    /\ last' = Last("analyze", o)
    /\ UNCHANGED <<currentStrategy, selected>>
    /\ Frame
Analyze == analyze_done(analyze(loaded, currentStrategy, Game))

\* showAll() of the builds that rank inline has ended with o
showAll_done(o) ==
    /\ lastRecommendation' = IF o.cached THEN o.value ELSE lastRecommendation
    /\ snapshotCalls' = snapshotCalls \cup o.calls
    /\ history' = OtherRan
    /\ last' = Last("showAll", o)
    /\ UNCHANGED <<currentStrategy, selected>>
    /\ Frame
\* A variant that leaves the RelaxedStrategy in place.
showAll_neverRestores(o) ==
    /\ currentStrategy' = "RelaxedStrategy"
    /\ lastRecommendation' = IF o.cached THEN o.value ELSE lastRecommendation
    /\ snapshotCalls' = snapshotCalls \cup o.calls
    /\ history' = OtherRan
    /\ last' = Last("showAll", o)
    /\ UNCHANGED selected
    /\ Frame
\* showAll() of easyStart2: the analyze() it runs under a RelaxedStrategy has
\* ended with o; the previous strategy is put back when analyze returns
showAll_restore(o) ==
    /\ currentStrategy' = IF o.kind = "throw" THEN "RelaxedStrategy" ELSE currentStrategy
    /\ lastRecommendation' = IF o.cached THEN o.value ELSE lastRecommendation
    /\ snapshotCalls' = snapshotCalls \cup o.calls
    /\ history' = OtherRan
    /\ last' = Last("showAll", o)
    /\ UNCHANGED selected
    /\ Frame
ShowAll ==
    IF loaded = "easyStart2"
    THEN showAll_restore(analyze(loaded, "RelaxedStrategy", Game))
    ELSE showAll_done(analyze(loaded, "inline", Game))

\* A variant of the end of a quiet operation that caches what it returns.
QuietDoneCaches(op, o) ==
    /\ snapshotCalls' = snapshotCalls \cup o.calls
    /\ history' = OtherRan
    /\ last' = Last(op, o)
    /\ lastRecommendation' = o.value
    /\ UNCHANGED <<currentStrategy, selected>>
    /\ Frame
\* One of the quiet operations has ended with o
quiet_done(op, o) ==
    /\ snapshotCalls' = snapshotCalls \cup o.calls
    /\ history' = OtherRan
    /\ last' = Last(op, o)
    /\ UNCHANGED <<currentStrategy, selected, lastRecommendation>>
    /\ Frame
GetRecommendation ==
    quiet_done("getRecommendation", getRecommendation(loaded, currentStrategy, Game))
GetAllRecommendations(limit) ==
    quiet_done("getAllRecommendations",
               getAllRecommendations(loaded, currentStrategy, Game, limit))
Debug == quiet_done("debug", debug(loaded, Game))

\* setStrategy(strategy)
SetStrategy(strategy) ==
    /\ IF ~InstanceofStrategy(strategy)
       THEN /\ history' = OtherRan
            /\ last' = Last("setStrategy", Logged(ReturnNull({}, <<>>), "Invalid strategy"))
            /\ UNCHANGED <<currentStrategy, selected>>
       ELSE /\ currentStrategy' = strategy
            /\ selected' = strategy
            /\ history' = OtherRan
            /\ last' = Last("setStrategy", ReturnNull({}, <<>>))
    /\ UNCHANGED <<lastRecommendation, snapshotCalls>>
    /\ Frame
\* useGreedy() and useRelaxed() exist in easyStart2 only
UseGreedy == loaded = "easyStart2" /\ SetStrategy("GreedyStrategy")
UseRelaxed == loaded = "easyStart2" /\ SetStrategy("RelaxedStrategy")

Next ==
    \/ Analyze
    \/ ShowAll
    \/ GetRecommendation
    \/ \E limit \in {1, 10} : GetAllRecommendations(limit)
    \/ Debug
    \/ \E strategy \in AdvisorStrategies \cup {NotAStrategy} : SetStrategy(strategy)
    \/ UseGreedy
    \/ UseRelaxed

Spec == Init /\ [][Next]_vars



-----------------------------------------------------------------------------
(* Steps 4 and 5 of analyze() and showAll() on a long list of candidates,  *)
(* as the economic model returns it for a snapshot with many buildings and *)
(* upgrades.                                                               *)

MaxRanked == 7

\* Candidates of the model: two below the ceiling, one above it
TopDomain ==
    { Cand("building", Num(100), Num(10), Num(10), {}),
      Cand("upgrade", Num(200), Num(10), Num(20), {}),
      Cand("building", Num(100), Fin(1, 50), Num(5000), {}) }

TopInit ==
    /\ candidates \in { WithIds(a) : a \in ListsUpTo(TopDomain, MaxRanked) }
    /\ input = candidates
    /\ ranking = NoCall
    /\ ROIIdle
    /\ loaded = "modular"
    /\ Game = GameObject(TRUE, Num(1000), <<>>, <<>>)
    /\ Game0 = Game
    /\ currentStrategy \in {"GreedyStrategy", "RelaxedStrategy"}
    /\ selected = currentStrategy
    /\ lastRecommendation = NullEntry
    /\ history = NoHistory
    /\ snapshotCalls = {}
    /\ last = NoLast

\* The operation op has ended with o
Top_done(op, o) ==
    /\ last = NoLast
    /\ last' = Last(op, o)
    /\ lastRecommendation' = IF o.cached THEN o.value ELSE lastRecommendation
    /\ UNCHANGED <<rankVars, roiVars, loaded, Game, Game0, currentStrategy, selected,
                   history, snapshotCalls>>

\* analyze() from const engine = new StrategyEngine(currentStrategy) on
AnalyzeCandidates ==
    Top_done("analyze",
             analyze_afterRanking(currentStrategy, {}, Ranked(currentStrategy, candidates)))
\* showAll() from its inline ranking on
ShowAllCandidates ==
    Top_done("showAll", analyze_afterRanking("inline", {}, Ranked("inline", candidates)))

TopNext == AnalyzeCandidates \/ ShowAllCandidates

SpecTop == TopInit /\ [][TopNext]_vars

-----------------------------------------------------------------------------
(* analyze() and showAll() on snapshots in which items that fail            *)
(* validation stand before, between and after the items that pass it.       *)

MaxObjects == 3
MaxStore == 2

\* Buildings: two that pass validation, one whose rate is an accessor, one
\* without a name, one whose amount is no number
SkipBuildingLikes ==
    { BuildingLike("Grandma", Num(2), Num(100), "number", Num(10), "no", Num(40)),
      BuildingLike("Cursor", Num(0), Num(50), "number", Num(10), "no", Num(0)),
      BuildingLike("Grandma", Num(0), Num(100), "function", Num(10), "no", Undefined),
      BuildingLike("", Num(0), Num(100), "number", Num(10), "no", Num(0)),
      BuildingLike("Farm", Undefined, Num(100), "number", Num(10), "no", Num(0)) }
\* Upgrades: one with a price accessor, one with a stored price, one without
\* a name, one without a price
SkipUpgradeLikes ==
    { UpgradeLike("Forwards from grandma", "function", Num(10000), "no", Undefined,
                  [str |-> TRUE, toks |-> <<Tok("building", 0, "Grandma"), Tok("mult", 2, "")>>]),
      UpgradeLike("Plain", "undefined", Undefined, "no", Num(1000), EmptyString),
      UpgradeLike("", "function", Num(100), "no", Undefined, EmptyString),
      UpgradeLike("Priceless", "undefined", Undefined, "no", Undefined, EmptyString) }

SkipInit ==
    /\ loaded \in Bundles
    /\ Game \in { GameObject(TRUE, Num(1000), Objects, UpgradesInStore) :
                    Objects \in ListsUpTo(SkipBuildingLikes, MaxObjects),
                    UpgradesInStore \in ListsUpTo(SkipUpgradeLikes, MaxStore) }
    /\ Game0 = Game
    /\ currentStrategy = "GreedyStrategy"
    /\ selected = "GreedyStrategy"
    /\ lastRecommendation = NullEntry
    /\ history = NoHistory
    /\ snapshotCalls = {}
    /\ last = NoLast
    /\ RankIdle
    /\ ROIIdle

\* analyze() on the snapshot
AnalyzeSnapshot == last = NoLast /\ Analyze
\* showAll() on the snapshot
ShowAllSnapshot == last = NoLast /\ ShowAll

SkipNext == AnalyzeSnapshot \/ ShowAllSnapshot

SpecSkip == SkipInit /\ [][SkipNext]_vars

-----------------------------------------------------------------------------
(* Properties of the ranking policies, under SpecRank.                     *)

RoiOf(c) == NumProp(c, "roiTime")
DeltaOf(c) == NumProp(c, "deltaCPS")
GreedyRanked == ranking.op = "evaluate" /\ ranking.strategy = "GreedyStrategy"
                /\ ranking.kind = "return"
RelaxedRanked == ranking.op = "evaluate" /\ ranking.strategy = "RelaxedStrategy"
                 /\ ranking.kind = "return"

\* C1: the result of GreedyStrategy.evaluate is ordered by payback time: if A
\* precedes B in it then A.roiTime <= B.roiTime.
C1_GreedyOrderedByRoi ==
    GreedyRanked =>
        \A i, j \in 1..Len(ranking.result) :
            i < j => Le(RoiOf(ranking.result[i]), RoiOf(ranking.result[j]))
\* a Greedy result of two candidates with different payback times that stood
\* in the opposite order in the input
C1_Witness ==
    /\ GreedyRanked
    /\ \E i, j \in 1..Len(ranking.result) :
          /\ i < j
          /\ Lt(RoiOf(ranking.result[i]), RoiOf(ranking.result[j]))
          /\ ranking.result[i].id > ranking.result[j].id

\* C2: no candidate of a Greedy result has a non-finite payback time or one
\* above MAX_REASONABLE_ROI.
C2_GreedyFiniteBelowCeiling ==
    GreedyRanked =>
        \A i \in 1..Len(ranking.result) :
            /\ IsFinite(RoiOf(ranking.result[i]))
            /\ Le(RoiOf(ranking.result[i]), Num(MAX_REASONABLE_ROI))
\* a non-empty Greedy result from an input that held an infinite payback time
\* and a finite one above the ceiling
C2_Witness ==
    /\ GreedyRanked
    /\ ranking.result # <<>>
    /\ \E i \in 1..Len(input) : input[i].obj /\ RoiOf(input[i]) = PosInf
    /\ \E i \in 1..Len(input) :
          input[i].obj /\ RoiOf(input[i]) = Num(MAX_REASONABLE_ROI + 1)

GreedyWithoutCeiling(array) ==
    InsertionSort(Filtered(Filtered(array, "roi"), "structure"), "greedy")

\* C4: RelaxedStrategy.evaluate returns exactly what Greedy returns with the
\* ceiling filter left out: the finite-payback, structurally valid candidates
\* in ascending payback time, ties in descending rate delta.
C4_RelaxedIsGreedyWithoutCeiling ==
    RelaxedRanked => ranking.result = GreedyWithoutCeiling(input)

\* C5: GreedyStrategy.evaluate and RelaxedStrategy.evaluate return an array
\* for every array of candidates, the empty one included, and leave the
\* caller's array as it was.
C5_EvaluateTotalAndPure ==
    ( /\ ranking.op = "evaluate"
      /\ ranking.strategy \in {"GreedyStrategy", "RelaxedStrategy"}
      /\ ~HasNullEntry(input) )
    => /\ ranking.kind = "return"
       /\ ranking.isArray
       /\ candidates = input
\* a call that filtered and reordered: the result is shorter than the input
\* and not in the input's order
C5_Witness ==
    /\ ranking.op = "evaluate"
    /\ ranking.strategy \in {"GreedyStrategy", "RelaxedStrategy"}
    /\ ~HasNullEntry(input)
    /\ Len(ranking.result) < Len(input)
    /\ \E i, j \in 1..Len(ranking.result) :
          i < j /\ ranking.result[i].id > ranking.result[j].id

\* the active strategy's evaluate throws or returns something that is no array
ActiveFails(strategy, array) ==
    LET res == evaluate(strategy, <<array>>, 1)
    IN  res.kind = "throw" \/ ~res.isArray

\* C6: when the evaluate of an active strategy that is no GreedyStrategy fails,
\* recommend calls evaluate once more, on a GreedyStrategy, and its outcome is
\* the outcome of Greedy on the same array; when the active strategy is a
\* GreedyStrategy and fails, recommend calls nothing more and throws.
C6_FallbackToGreedyOnce ==
    ( /\ ranking.op = "recommend"
      /\ ranking.argIsArray
      /\ ActiveFails(ranking.strategy, input) )
    => LET greedy == GreedyStrategy_evaluate(<<input>>, 1)
       IN  IF ranking.strategy # "GreedyStrategy"
           THEN /\ ranking.evals = <<ranking.strategy, "GreedyStrategy">>
                /\ ranking.kind = greedy.kind
                /\ ranking.err = greedy.err
                /\ ranking.result = (IF greedy.ref = 0 THEN <<>> ELSE greedy.heap[greedy.ref])
           ELSE /\ ranking.evals = <<"GreedyStrategy">>
                /\ ranking.kind = "throw"
                /\ ranking.err = "TypeError"
\* a recommend whose strategy returned no array and that returned two ranked
\* candidates from the fallback
C6_Witness ==
    /\ ranking.op = "recommend"
    /\ ranking.strategy = "MalformedStrategy"
    /\ ranking.kind = "return"
    /\ Len(ranking.result) >= 2
    /\ ranking.evals = <<"MalformedStrategy", "GreedyStrategy">>

-----------------------------------------------------------------------------
(* Properties of the economic model, under SpecROI.                        *)

ROICandidate == roi.op # "none" /\ roi.threw = "no" /\ roi.cand.obj

\* C10: the roiTime of a candidate that calculateBuildingROI or
\* calculateUpgradeROI produces is never NaN and never negative, whatever the
\* cost and the estimated rate delta: it is +Infinity or a finite number >= 0.
C10_RoiTimeNeverNaNOrNegative ==
    ROICandidate =>
        \/ roi.cand.roiTime = PosInf
        \/ roi.cand.roiTime.k = "fin" /\ roi.cand.roiTime.n >= 0
\* a candidate whose rate delta is NaN, so that the quotient is NaN and the
\* check of the quotient decides
C10_Witness ==
    /\ ROICandidate
    /\ roi.cand.deltaCPS.k = "nan"
    /\ roi.cand.roiTime = PosInf

BuildingCandidate == ROICandidate /\ roi.op = "calculateBuildingROI"
UpgradeCandidate == ROICandidate /\ roi.op = "calculateUpgradeROI"

\* the payback time of a cost and a rate delta, as specified
PaybackTime(cost, rateDelta) ==
    IF Lt(rateDelta, Fin(1, 1000)) THEN PosInf
    ELSE IF IsFinite(Div(cost, rateDelta)) /\ ~Lt(Div(cost, rateDelta), Num(0))
    THEN Div(cost, rateDelta)
    ELSE PosInf

\* C11: the payback time of a candidate is +Infinity when its rate delta is
\* below MIN_VALID_DELTA_CPS (0.001); otherwise it is cost / rateDelta, or
\* +Infinity if that quotient is not finite or is negative.  A rate delta
\* equal to the threshold gives the finite quotient of a finite cost.
C11_PaybackTime ==
    ROICandidate =>
        /\ roi.cand.roiTime = PaybackTime(item.cost, roi.cand.deltaCPS)
        /\ roi.cand.deltaCPS = MIN_VALID_DELTA_CPS /\ IsFinite(item.cost)
              => roi.cand.roiTime = Div(item.cost, MIN_VALID_DELTA_CPS)
\* a building that adds exactly 0.001 per second for 100 cookies pays back
\* in 100000 seconds
C11_Witness ==
    /\ BuildingCandidate
    /\ item.cost = Num(100)
    /\ roi.cand.deltaCPS = Fin(1, 1000)
    /\ roi.cand.roiTime = Num(100000)

\* the multiplier of a building, as specified
Multiplier(building) ==
    IF Lt(Num(0), building.owned) /\ Lt(Num(0), building.totalCPS)
       /\ Lt(Num(0), building.baseCPS)
    THEN Div(building.totalCPS, Mul(building.baseCPS, building.owned))
    ELSE Num(1)

\* C12: the candidate of a building has rateDelta = unitRate * multiplier and
\* cost = acquisitionCost, where the multiplier is
\* totalRate / (unitRate * owned) when owned > 0, totalRate > 0 and
\* unitRate > 0, and 1 in every other case.
C12_BuildingMultiplier ==
    BuildingCandidate =>
        /\ roi.cand.deltaCPS = Mul(item.baseCPS, Multiplier(item))
        /\ roi.cand.cost = item.cost
\* five Grandmas making 6 per second at a unit rate of 1: the sixth, for
\* 1000 cookies, adds 1.2 per second and pays back in 1000 / 1.2 seconds
C12_Witness ==
    /\ BuildingCandidate
    /\ item.owned = Num(5) /\ item.cost = Num(1000)
    /\ item.baseCPS = Num(1) /\ item.totalCPS = Num(6)
    /\ roi.cand.deltaCPS = Fin(6, 5)
    /\ roi.cand.roiTime = Fin(2500, 3)

\* C13: the candidate of a building with owned = 0 and a numeric unitRate has
\* rateDelta equal to that unitRate, whatever its totalRate is.
C13_FirstUnitDeltaIsUnitRate ==
    BuildingCandidate /\ item.owned = Num(0) /\ TypeofNumber(item.baseCPS)
        => roi.cand.deltaCPS = item.baseCPS
\* a first unit of a building whose total rate is reported as 40: the rate
\* delta is the unit rate 10
C13_Witness ==
    /\ BuildingCandidate
    /\ item.owned = Num(0) /\ item.totalCPS = Num(40) /\ item.baseCPS = Num(10)
    /\ roi.cand.deltaCPS = Num(10)

\* C14: the rate delta of the candidate of a building is >= 0.
C14_BuildingDeltaNonNegative ==
    BuildingCandidate => Le(Num(0), roi.cand.deltaCPS)

\* the text the estimate of the upgrade at hand works on, and the building
\* of the state that text names
DescOfItem == DescToLowerCase(DescOr(item.descriptionDetail, item.description))
LocatedOfItem == _findAffectedBuilding(gameState, DescOfItem)
\* every rate of the state is strictly positive, and so is every factor a
\* pattern takes from the text (N - 1 of "Nx as efficient", N of the others)
PositiveRates ==
    /\ Lt(Num(0), gameState.cookiesPerSecond)
    /\ \A i \in 1..Len(gameState.buildings) : Lt(Num(0), gameState.buildings[i].totalCPS)
    /\ \A i \in 1..Len(DescOfItem.toks) :
          /\ DescOfItem.toks[i].t = "mult" => DescOfItem.toks[i].v > 1
          /\ DescOfItem.toks[i].t \in {"pct", "flat"} => DescOfItem.toks[i].v > 0

Applies(gs, desc, b, n) ==
    CASE n = 1 -> Match(desc, "mult") # 0 /\ b # 0
      [] n = 2 -> Match(desc, "pct") # 0
      [] n = 3 -> Match(desc, "flat") # 0
      [] n = 4 -> b # 0
      [] n = 5 -> IncludesClickOrCursor(desc)
      [] n = 6 -> TRUE
PatternValue(gs, desc, b, n) ==
    CASE n = 1 -> Mul(gs.buildings[b].totalCPS, Sub(Matched(desc, "mult"), Num(1)))
      [] n = 2 /\ b # 0 -> Div(Mul(gs.buildings[b].totalCPS, Matched(desc, "pct")), Num(100))
      [] n = 2 /\ b = 0 -> Div(Mul(gs.cookiesPerSecond, Matched(desc, "pct")), Num(100))
      [] n = 3 -> Mul(Matched(desc, "flat"), Fin(3, 2))
      [] n = 4 -> Mul(gs.buildings[b].totalCPS, Fin(1, 2))
      [] n = 5 -> Mul(gs.cookiesPerSecond, Fin(1, 100))
      [] n = 6 -> Mul(gs.cookiesPerSecond, Fin(2, 100))
EarliestPattern(gs, desc, b, from) ==
    CHOOSE n \in from..6 :
        Applies(gs, desc, b, n) /\ \A m \in from..(n - 1) : ~Applies(gs, desc, b, m)

NamedBuildingPresent ==
    \E i \in 1..Len(gameState.buildings) :
        ToLowerCase(gameState.buildings[i].name)
            = DescOfItem.toks[Match(DescOfItem, "building")].name

\* C17: for a description that matches "Nx as efficient", the estimate is
\* totalRate * (N - 1) of the named building when the state holds it; when
\* the state does not hold it (or no building is named) the estimate is that
\* of the earliest later pattern among percentage (of the global rate), flat
\* bonus, click keyword and fallback.
C17_MultiplierNeedsTheBuilding ==
    UpgradeCandidate /\ Match(DescOfItem, "mult") # 0 =>
        IF Match(DescOfItem, "building") # 0 /\ NamedBuildingPresent
        THEN roi.cand.deltaCPS
               = Mul(gameState.buildings[LocatedOfItem].totalCPS,
                     Sub(Matched(DescOfItem, "mult"), Num(1)))
        ELSE roi.cand.deltaCPS
               = PatternValue(gameState, DescOfItem, 0,
                              EarliestPattern(gameState, DescOfItem, 0, 2))
\* "cursor ... 2x as efficient" in a state that holds Grandmas only, at a
\* global rate of 100: no multiplier estimate, the keyword gives 100 * 0.01
C17_Witness ==
    /\ UpgradeCandidate
    /\ DescOfItem.toks = <<Tok("building", 0, "cursor"), Tok("mult", 2, "")>>
    /\ gameState.buildings # <<>>
    /\ gameState.cookiesPerSecond = Num(100)
    /\ roi.cand.deltaCPS = Num(1)

-----------------------------------------------------------------------------
(* Properties of the public API, under Spec.                               *)

\* C7: after any sequence of public operations getStrategyName() returns the
\* name of the strategy given to the most recent accepted change of policy
\* (setStrategy with a Strategy, useGreedy, useRelaxed), GreedyStrategy if
\* there was none.
C7_StrategyNameIsSelected == getStrategyName(currentStrategy) = selected

\* the ranked result r of the strategy on the array
RankedResult(strategy, array) ==
    Ranked(strategy, array).heap[Ranked(strategy, array).ref]
Min(a, b) == IF a < b THEN a ELSE b
\* top and alternatives are the head of r and what follows it, five at most
TopAndAlternatives(r, top, alternatives) ==
    /\ top = r[1]
    /\ Len(alternatives) = Min(Len(r) - 1, 5)
    /\ \A i \in 1..Len(alternatives) :
          /\ alternatives[i] = r[i + 1]
          /\ alternatives[i].id # top.id
          /\ Le(top.roiTime, alternatives[i].roiTime)

\* C21: a successful analyze() with ranked result r of length n returns
\* r[0] and hands r[1..min(n-1, 5)] to the renderer as alternatives, in
\* ranked order: five at most, none of them the top candidate, each with a
\* payback time >= the top's.
C21_TopAndFiveAlternatives ==
    last.op = "analyze" /\ last.kind = "return" /\ last.value.obj
        => TopAndAlternatives(RankedResult(currentStrategy, candidates),
                              last.value, last.list)
\* a ranked result of seven candidates: the top and five alternatives
C21_Witness ==
    /\ last.op = "analyze" /\ last.value.obj
    /\ Len(RankedResult(currentStrategy, candidates)) = 7
    /\ Len(last.list) = 5
    /\ last.list[5] = RankedResult(currentStrategy, candidates)[6]

\* The console messages of analyze by the failure case they tell
InvalidSourceLogs ==
    { "Cookie Clicker Game object not found", "Game object is invalid or incomplete",
      "Failed to extract valid game state" }
NoCandidatesLogs ==
    { "No purchase candidates found", "No valid recommendations after filtering" }
AnalyzeReturned == last.op = "analyze" /\ last.kind = "return"
NoGame == GameObject(FALSE, Undefined, <<>>, <<>>)

C19_NoExceptionEscapes ==
    last.op \in {"analyze", "showAll", "getRecommendation", "getAllRecommendations"}
        => last.kind = "return"

\* every candidate of the snapshot has a finite payback time above the
\* ceiling (and there is one)
AllAboveCeiling ==
    /\ Candidates(loaded, Game).threw = "no"
    /\ Candidates(loaded, Game).candidates # <<>>
    /\ \A i \in 1..Len(Candidates(loaded, Game).candidates) :
          /\ IsFinite(Candidates(loaded, Game).candidates[i].roiTime)
          /\ Lt(Num(3600), Candidates(loaded, Game).candidates[i].roiTime)
Ascending(list) ==
    \A i \in 1..Len(list) : \A j \in (i + 1)..Len(list) :
        Le(list[i].roiTime, list[j].roiTime)

\* C20: on a snapshot all of whose candidates have a finite payback time
\* above one hour, analyze() under the Greedy policy returns null for an
\* empty ranking, caches nothing and shows nothing, and showAll() returns a
\* top candidate and shows it with its alternatives in ascending order of
\* payback time.
C20_AboveCeilingGreedyEmptyRelaxedNot ==
    AllAboveCeiling =>
        /\ last.op = "analyze" /\ currentStrategy = "GreedyStrategy"
              => /\ last.kind = "return"
                 /\ last.value = NullEntry /\ last.list = <<>> /\ ~last.cached
                 /\ last.log = "No valid recommendations after filtering"
        /\ last.op = "showAll"
              => /\ last.kind = "return"
                 /\ last.value # NullEntry /\ last.cached
                 /\ Ascending(<<last.value>> \o last.list)
\* a Cursor that pays back in 10000 s and an upgrade that pays back in
\* 5000 s: analyze() under Greedy returned null, the showAll() after it
\* returned the upgrade and showed the Cursor behind it
C20_Witness ==
    /\ AllAboveCeiling
    /\ history.stage = "other" /\ history.policy = "GreedyStrategy"
    /\ history.out[3] = NullEntry
    /\ last.op = "showAll"
    /\ last.value.type = "upgrade" /\ last.value.roiTime = Num(5000)
    /\ Len(last.list) = 1 /\ last.list[1].roiTime = Num(10000)

\* C8: an analyze() that follows another analyze() on the unchanged snapshot
\* under the same selected policy shows what that one showed: the same
\* outcome, top candidate and alternatives, whatever ran in between.
C8_AnalyzeTwiceSameOutput ==
    history.stage \in {"twice", "twiceAfterOther"} => history.same
\* a second analyze() after other operations that shows, as the first did, a
\* top candidate and at least one alternative
C8_Witness ==
    /\ history.stage = "twiceAfterOther"
    /\ history.same
    /\ history.out[3].obj
    /\ Len(history.out[4]) > 0

\* C9 as stated: nothing is written to the snapshot, and every call made on
\* it is a call without arguments.
C9_OnlyZeroArgumentCalls ==
    /\ Game = Game0
    /\ \A c \in snapshotCalls : c.args = 0
\* C9: no operation writes to the snapshot, and the only calls made on it are
\* getPrice() of an upgrade, without arguments, and, in the two easy-start
\* builds, cps(building) of a building, with the building as its argument.
C9_SnapshotReadOnly ==
    /\ Game = Game0
    /\ \A c \in snapshotCalls :
          \/ c.method = "getPrice" /\ c.args = 0
          \/ c.method = "cps" /\ c.args = 1 /\ loaded # "modular"
\* both accessors have been called and an analysis has recommended something
C9_Witness ==
    /\ Game = Game0
    /\ \E c \in snapshotCalls : c.method = "getPrice"
    /\ \E c \in snapshotCalls : c.method = "cps"
    /\ lastRecommendation.obj

\* A building-like of the claim: a non-empty name, a numeric owned count, a
\* non-negative cost, and a unit rate that is a stored non-negative number or
\* a callable that returns a non-negative number.
RateExposed(building) ==
    /\ building.obj /\ building.name # ""
    /\ TypeofNumber(building.amount)
    /\ TypeofNumber(building.price) /\ ~Lt(building.price, Num(0))
    /\ \/ building.cpsType = "number" /\ Le(Num(0), building.cps)
       \/ building.cpsType = "function" /\ building.cpsThrows = "no"
                                        /\ Le(Num(0), building.cps)
\* The building state extracted from the key-th building-like has this rate
NormalizedWithRate(gs, key, rate) ==
    \E j \in 1..Len(gs.buildings) :
        gs.buildings[j].id = key /\ gs.buildings[j].baseCPS = rate

\* C22: once analyze() has extracted the state of a valid Game without an
\* exception, every building-like with a non-empty name, a numeric owned
\* count, a non-negative cost and a unit rate exposed as a stored non-negative
\* number or as a callable is in the normalized state, with that number or
\* the result of the callable as its baseCPS.
C22_StoredOrCallableRateAdmitted ==
    ( /\ last.op = "analyze"
      /\ isValidGameObject(Game)
      /\ getGameState(loaded, Game).threw = "no" )
    => \A key \in 1..Len(Game.Objects) :
           RateExposed(Game.Objects[key])
           => NormalizedWithRate(getGameState(loaded, Game).gs, key, Game.Objects[key].cps)

-----------------------------------------------------------------------------
(* Properties of the extraction, under SpecSkip.                            *)

\* The keys of the building-likes that pass validation, ascending, and the
\* indexes (from 0) of the upgrade-likes that do
ValidBuildingKeys(bundle, Objects) ==
    SelectSeq([k \in 1..Len(Objects) |-> k], LAMBDA k : isValidBuilding(bundle, Objects[k]))
ValidUpgradeIndexes(UpgradesInStore) ==
    SelectSeq([k \in 1..Len(UpgradesInStore) |-> k - 1],
              LAMBDA i : isValidUpgrade(UpgradesInStore[i + 1]))
\* states is the list of the states of the building-likes with these keys
BuildingsOfKeys(states, Objects, keys) ==
    /\ Len(states) = Len(keys)
    /\ \A j \in 1..Len(keys) :
          /\ states[j].id = keys[j]
          /\ states[j].name = Objects[keys[j]].name
          /\ states[j].cost = Objects[keys[j]].price
UpgradesOfIndexes(states, UpgradesInStore, indexes) ==
    /\ Len(states) = Len(indexes)
    /\ \A j \in 1..Len(indexes) :
          /\ states[j].id = UpgradeId(indexes[j])
          /\ states[j].name = UpgradesInStore[indexes[j] + 1].name
ExactlyTheValid(bundle, game, gs) ==
    /\ BuildingsOfKeys(gs.buildings, game.Objects, ValidBuildingKeys(bundle, game.Objects))
    /\ UpgradesOfIndexes(gs.upgrades, game.UpgradesInStore,
                         ValidUpgradeIndexes(game.UpgradesInStore))
\* The snapshot without the items that fail validation
WithoutInvalid(bundle, game) ==
    [game EXCEPT !.Objects = SelectSeq(@, LAMBDA b : isValidBuilding(bundle, b)),
                 !.UpgradesInStore = SelectSeq(@, LAMBDA u : isValidUpgrade(u))]
\* What an operation showed, apart from the keys of the items
NoId(c) == [c EXCEPT !.id = 0]
ShownNoIds(o) ==
    <<o.kind, o.err, NoId(o.value), [i \in 1..Len(o.list) |-> NoId(o.list[i])], o.log>>
\* The ranking the last operation used
RankerOfLast ==
    IF last.op = "analyze" THEN currentStrategy
    ELSE IF loaded = "easyStart2" THEN "RelaxedStrategy" ELSE "inline"

\* C23: when analyze() or showAll() has run on a snapshot, the normalized
\* state holds exactly the buildings and upgrades of the snapshot that pass
\* validation, in the order of extraction, and the operation showed what it
\* shows for the snapshot without the invalid items, wherever these stand.
C23_InvalidItemsSkipped ==
    last.op \in {"analyze", "showAll"}
    => /\ getGameState(loaded, Game).threw = "no"
       /\ ExactlyTheValid(loaded, Game, getGameState(loaded, Game).gs)
       /\ ShownNoIds(last)
            = ShownNoIds(analyze(loaded, RankerOfLast, WithoutInvalid(loaded, Game)))
\* analyze() has recommended something with an alternative on a snapshot
\* whose first two buildings and first upgrade are invalid and whose third
\* building and second upgrade are valid
C23_Witness ==
    /\ last.op = "analyze"
    /\ Len(Game.Objects) = 3 /\ Len(Game.UpgradesInStore) = 2
    /\ ~isValidBuilding(loaded, Game.Objects[1])
    /\ ~isValidBuilding(loaded, Game.Objects[2])
    /\ isValidBuilding(loaded, Game.Objects[3])
    /\ ~isValidUpgrade(Game.UpgradesInStore[1])
    /\ isValidUpgrade(Game.UpgradesInStore[2])
    /\ last.value.obj /\ Len(last.list) = 1

-----------------------------------------------------------------------------
(* Properties of the snapshot pipeline, under Spec.                         *)

\* C24: when analyze() has extracted the normalized state of a valid Game
\* without an exception, getAllCandidates on that state throws nothing: items
\* with unusable data are dropped one by one.
C24_GetAllCandidatesTotal ==
    ( /\ last.op = "analyze"
      /\ isValidGameObject(Game)
      /\ getGameState(loaded, Game).threw = "no" )
    => getAllCandidates(getGameState(loaded, Game)).threw = "no"

-----------------------------------------------------------------------------
(* Properties of the candidates that the pipeline retains, under SpecROI.   *)

\* C25: every candidate that the economic model calculates and the Greedy or
\* Relaxed ranking retains has cost > 0, a rate delta of at least
\* MIN_VALID_DELTA_CPS, and a payback time of cost / deltaCPS.
C25_RetainedCandidatesWellFormed ==
    ranking.op = "recommend"
    => /\ ranking.kind = "return"
       /\ \A i \in 1..Len(ranking.result) :
             /\ Lt(Num(0), ranking.result[i].cost)
             /\ Le(MIN_VALID_DELTA_CPS, ranking.result[i].deltaCPS)
             /\ ranking.result[i].roiTime
                  = Div(ranking.result[i].cost, ranking.result[i].deltaCPS)
\* a candidate whose rate delta is the threshold itself has been retained
C25_Witness ==
    /\ ranking.op = "recommend"
    /\ Len(ranking.result) = 1
    /\ ranking.result[1] = roi.cand
    /\ ranking.result[1].deltaCPS = MIN_VALID_DELTA_CPS
    /\ ranking.result[1].roiTime = Num(100000)

-----------------------------------------------------------------------------
(* Further properties of the ranking policies, under SpecRank.              *)

\* The candidates of the input that the other two filters of Greedy let
\* through: a finite positive payback time and a valid structure
PassesOtherFilters(c) == c.obj /\ isValidROI(RoiOf(c)) /\ isValidCandidate(c)
InResult(c) == \E j \in 1..Len(ranking.result) : ranking.result[j] = c

WantedByGreedy(c) ==
    /\ c.obj
    /\ TypeofNumber(RoiOf(c)) /\ IsFinite(RoiOf(c))
    /\ Lt(Num(0), RoiOf(c)) /\ Le(RoiOf(c), Num(3600))
    /\ requiredProps \cap c.missing = {}
    /\ c.type \in {"building", "upgrade"}
    /\ TypeofNumber(c.cost) /\ Lt(Num(0), c.cost)
TimesInResult(c) == Cardinality({ j \in 1..Len(ranking.result) : ranking.result[j] = c })

\* C27: every candidate of the input with a finite positive payback time of
\* at most 3600 and a valid structure is in the Greedy result exactly once,
\* and every element of the result is such a candidate of the input.
C27_GreedyLosesAndInventsNothing ==
    (GreedyRanked /\ ranking.kind = "return")
    => /\ \A i \in 1..Len(input) :
             WantedByGreedy(input[i]) => TimesInResult(input[i]) = 1
       /\ \A j \in 1..Len(ranking.result) :
             /\ WantedByGreedy(ranking.result[j])
             /\ \E i \in 1..Len(input) : input[i] = ranking.result[j]

-----------------------------------------------------------------------------
(* Further properties of the public API, under Spec.                        *)

\* Cookie counts of a snapshot: nothing, less than every price, more than
\* every price
CookieCounts == {Num(0), Num(10), Num(1000000)}
WithCookies(game, cookies) == [game EXCEPT !.cookies = cookies]
\* The candidates of the economic model for a snapshot, with the exception
\* that ends the pipeline, if any
CandidatesOf(bundle, game) ==
    <<getAllCandidates(getGameState(bundle, game)).threw,
      getAllCandidates(getGameState(bundle, game)).candidates>>

Placeholders == {"LookaheadStrategy", "SynergyStrategy", "BalancedStrategy"}
\* What Greedy does on the array, called as the last call was: evaluate of a
\* GreedyStrategy, or recommend of an engine on one
GreedyOn(array, op) ==
    IF op = "evaluate"
    THEN EngineResult(GreedyStrategy_evaluate(<<array>>, 1), <<>>, "none")
    ELSE StrategyEngine_recommend("GreedyStrategy", TRUE, <<array>>, 1)
\* The last call ended as g: the same return or throw, the same array
\* returned, the caller's array left the same
EndedAs(g) ==
    /\ ranking.kind = g.kind /\ ranking.err = g.err /\ ranking.isArray = g.isArray
    /\ ranking.result = (IF g.ref = 0 THEN <<>> ELSE g.heap[g.ref])
    /\ candidates = g.heap[1]

\* C29: evaluate of a LookaheadStrategy, SynergyStrategy or BalancedStrategy,
\* and recommend of an engine on one of them, end as they end for a
\* GreedyStrategy on the same array: the same ranking is returned.
C29_PlaceholdersEqualGreedy ==
    (ranking.op \in {"evaluate", "recommend"} /\ ranking.strategy \in Placeholders
       /\ ranking.argIsArray)
    => EndedAs(GreedyOn(input, ranking.op))
\* a LookaheadStrategy has ranked two candidates and dropped one above the
\* ceiling
C29_Witness ==
    /\ ranking.op = "evaluate" /\ ranking.strategy = "LookaheadStrategy"
    /\ ranking.kind = "return"
    /\ Len(input) = 3 /\ Len(ranking.result) = 2
    /\ \E i \in 1..3 : RoiOf(input[i]) = Num(3601) /\ isValidCandidate(input[i])

\* The operation that has just ended is an analyze() or showAll() that
\* returned a candidate
SucceededNow(l) == l.op \in {"analyze", "showAll"} /\ l.kind = "return" /\ l.value.obj

\* C30: every operation leaves in the cache (what getLastRecommendation()
\* returns) the candidate it has returned if it is an analyze() or showAll()
\* that returned one, and what the cache held before in every other case: a
\* failed analyze() or showAll(), getRecommendation, getAllRecommendations,
\* debug, setStrategy.  What an analyze() shows is what it shows for the
\* snapshot and the strategy alone, whatever the cache holds.
C30_CacheWrittenOnlyBySuccess ==
    [][ /\ lastRecommendation'
             = IF SucceededNow(last') THEN last'.value ELSE lastRecommendation
        /\ last'.op = "analyze"
             => Shown(last') = Shown(analyze(loaded, currentStrategy, Game)) ]_vars
\* an analyze() has failed and the cache still holds the candidate of an
\* earlier success
C30_Witness ==
    /\ last.op = "analyze"
    /\ ~last.value.obj
    /\ lastRecommendation.obj

====
